---- MODULE Spec2Model ----
(***************************************************************************)
(* Chunked resumable upload of EquiAnalyze-Pro: the browser-side driver    *)
(* uploadToGemini (src/lib/analysisService.ts, second definition) and the  *)
(* three server routes it talks to: /api/upload/start, /api/upload/chunk   *)
(* and /api/upload/status.  The remote file service is a black box whose   *)
(* answers are chosen nondeterministically.                                *)
(***************************************************************************)
EXTENDS Integers, Sequences, FiniteSets, TLC

(* ------------------------------ bounds --------------------------------- *)
\* files of up to MaxChunks full chunks (plus the 10 MiB file of scenario C)
MaxChunks == 3
\* number of uploadToGemini invocations for one file (first call + retries)
MaxRuns == 2

(* ------------------------- program constants --------------------------- *)
CHUNK_SIZE == 3 * 1024 * 1024
MaxAttempts == 60

(* ------------------------- JavaScript values --------------------------- *)
UNDEF == "<undefined>"
Falsy(v) == v \in {UNDEF, ""}
\* a || b
OrElse(a, b) == IF Falsy(a) THEN b ELSE a

\* Number.prototype.toString(): the decimal digits of a natural number
RECURSIVE ToDigits(_)
ToDigits(n) == IF n < 10 THEN <<n>> ELSE Append(ToDigits(n \div 10), n % 10)
\* parseInt(s, 10) on a digit string; -1 stands for NaN
RECURSIVE ParseInt(_)
ParseInt(s) ==
    IF Len(s) = 0 THEN -1
    ELSE IF Len(s) = 1 THEN s[1]
    ELSE ParseInt(SubSeq(s, 1, Len(s) - 1)) * 10 + s[Len(s)]
\* Boolean.prototype.toString()
BoolToString(b) == IF b THEN "true" ELSE "false"
\* Math.round(n / d * m) for naturals n, d > 0: round half up
RoundRatio(n, d, m) == (2 * n * m + d) \div (2 * d)
Min(a, b) == IF a < b THEN a ELSE b

(* ------------------------------ inputs --------------------------------- *)
\* the 10 MiB file of scenario C
ScenarioCSize == 10 * 1024 * 1024
FileSizes ==
    {0, 1, CHUNK_SIZE - 1, ScenarioCSize} \cup
    {k * CHUNK_SIZE + d : k \in 1..MaxChunks, d \in {0, 1}}
FileTypes == {"video/mp4", ""}
\* HTTP statuses of a rejected remote request
ErrorStatuses == {400, 503}
\* the `file` object of the remote finalize acknowledgment (file?.x is
\* undefined when the object is missing)
FileInfos ==
    { [uri |-> "uri1", name |-> "files/abc", mimeType |-> "video/mp4", state |-> "PROCESSING"],
      [uri |-> "uri1", name |-> "files/abc", mimeType |-> "video/mp4", state |-> "ACTIVE"],
      [uri |-> "uri1", name |-> "files/abc", mimeType |-> UNDEF,       state |-> "FAILED"],
      [uri |-> UNDEF,  name |-> "files/abc", mimeType |-> UNDEF,       state |-> "ACTIVE"],
      [uri |-> UNDEF,  name |-> UNDEF,       mimeType |-> UNDEF,       state |-> UNDEF] }
\* the body of a remote status answer
StatusDatas ==
    { [state |-> s, uri |-> u[1], mimeType |-> u[2]] :
        s \in {"PROCESSING", "ACTIVE"},
        u \in {<<UNDEF, UNDEF>>, <<"uri2", "video/webm">>} }
    \cup { [state |-> "FAILED", uri |-> "uri2", mimeType |-> "video/webm"],
           [state |-> UNDEF, uri |-> UNDEF, mimeType |-> UNDEF] }

(* ------------------------------- errors -------------------------------- *)
NoStatus == 0
NoOffset == -1
\* an Error value: its constructor name, the fixed text of its message, and
\* what is interpolated into the message: an HTTP status (NoStatus when none
\* is), a remote state ("" when none is), a byte offset (no message of this
\* program has one)
Err(name, text, status) ==
    [name |-> name, text |-> text, status |-> status, state |-> "",
     offset |-> NoOffset]
NoError == Err("none", "", NoStatus)
\* TypeError of a fetch() that rejects
FetchError == Err("TypeError", "fetch failed", NoStatus)

NoMsg == [kind |-> "none"]

VARIABLES
    file,          \* the File argument: [size, type]
    apiKey,        \* GEMINI_API_KEY is configured on the server
    pc,            \* position of uploadToGemini
    net,           \* request or response in flight between browser and route
    uploadUrl,     \* uploadUrl
    totalChunks,   \* totalChunks
    i,             \* loop index i
    offset,        \* offset
    chunkEnd,      \* chunkEnd of the chunk in flight
    fileName,      \* fileName
    fileUri,       \* fileUri
    mimeType,      \* mimeType
    state,         \* state
    attempts,      \* attempts
    percent,       \* percent of the last onProgress call (-1: none yet)
    result,        \* resolved value of the promise, or UNDEF
    error,         \* rejection value of the promise, or NoError
    chunkReqs,     \* history: chunk requests sent by the browser in this run
    uploads,       \* history: chunk POSTs made by the chunk route in this run
    polls,         \* history: status requests sent in this run
    allProcessing, \* history: every successful poll so far said PROCESSING
    activeAt,      \* history: index of the poll that first said ACTIVE
    lastSeen,      \* history: state in the last successful poll ("none": no such poll)
    failedChunk,   \* history: the chunk transfer the remote rejected
    run,           \* history: number of this uploadToGemini invocation
    prevSent,      \* history: offset reached by the previous, failed run
    up,            \* overlapping calls of uploadToGemini: their local variables
    sessions,      \* overlapping calls: upload sessions opened by the remote so far
    sharedFile,    \* overlapping calls: the file passed to every call
    ffmpeg,        \* videoCompressor: let ffmpeg (0: null, else an engine of engines)
    engines,       \* videoCompressor: the FFmpeg instances created so far
    cv,            \* videoCompressor: the calls of compressVideo
    an,            \* analyzeVideo and the analyze route: one request
    pair,          \* the single-shot route and a one-chunk run, same remote answers
    page,          \* HomePage: mounted, appState, videoUrl, previousUrlRef, result
    hf,            \* HomePage: the runs of handleFile / handleFileReady
    urls           \* the object URLs created so far, with their revocations

locals == <<uploadUrl, totalChunks, i, offset, chunkEnd, fileName, fileUri,
            mimeType, state, attempts>>
hist == <<chunkReqs, uploads, polls, allProcessing, activeAt, lastSeen,
          failedChunk, run, prevSent>>
uploadVars == <<file, apiKey, pc, net, locals, percent, result, error, hist>>
overlapVars == <<up, sessions, sharedFile>>
compressVars == <<ffmpeg, engines, cv>>
analyzeVars == <<an>>
pairVars == <<pair>>
pageVars == <<page, hf, urls>>
notUpload == <<overlapVars, compressVars, analyzeVars, pairVars, pageVars>>
notOverlap == <<uploadVars, compressVars, analyzeVars, pairVars, pageVars>>
notCompress == <<uploadVars, overlapVars, analyzeVars, pairVars, pageVars>>
notAnalyze == <<uploadVars, overlapVars, compressVars, pairVars, pageVars>>
notPair == <<uploadVars, overlapVars, compressVars, analyzeVars, pageVars>>
notPage == <<uploadVars, overlapVars, compressVars, analyzeVars, pairVars>>
vars == <<uploadVars, overlapVars, compressVars, analyzeVars, pairVars, pageVars>>

\* the callers that may overlap
Calls == 1 .. 2

NoChunk == [offset |-> NoOffset, status |-> NoStatus]

\* the state at the call of uploadToGemini(file, onProgress)
Entry ==
    /\ pc = "start"
    /\ net = NoMsg
    /\ uploadUrl = UNDEF
    /\ totalChunks = 0
    /\ i = 0
    /\ offset = 0
    /\ chunkEnd = 0
    /\ fileName = UNDEF
    /\ fileUri = UNDEF
    /\ mimeType = UNDEF
    /\ state = UNDEF
    /\ attempts = 0
    /\ percent = -1
    /\ result = UNDEF
    /\ error = NoError
    /\ chunkReqs = <<>>
    /\ uploads = <<>>
    /\ polls = 0
    /\ allProcessing = TRUE
    /\ activeAt = 0
    /\ lastSeen = "none"
    /\ failedChunk = NoChunk

\* no overlapping call has been made
NotCalled == [pc |-> "idle", uploadUrl |-> 0, totalChunks |-> 0, i |-> 0,
              state |-> UNDEF, attempts |-> 0]
OverlapIdle ==
    /\ up = [c \in Calls |-> NotCalled]
    /\ sessions = 0
    /\ sharedFile = [size |-> 1, type |-> "video/mp4"]

(* ------------------- videoCompressor.ts: the inputs --------------------- *)
\* const MAX_HEIGHT = 480
MAX_HEIGHT == 480
\* const MAX_FILE_SIZE_MB = 3
MAX_FILE_SIZE_MB == 3
\* three mebibytes, the size at which file.size / 1024 / 1024 is exactly 3
ThreeMiB == 3 * 1024 * 1024
\* the heights and byte lengths around the two thresholds
Heights == {MAX_HEIGHT, MAX_HEIGHT + 1}
Sizes == {3 * 1000 * 1000 + 1, ThreeMiB, ThreeMiB + 1}
\* what the decision does not read: width, duration, file name, MIME type
Variants ==
    {[width |-> 640, duration |-> 12, name |-> "ride.mp4", type |-> "video/mp4"],
     [width |-> 1920, duration |-> 240, name |-> "ride.MOV", type |-> "video/quicktime"]}
\* a File of the browser
FileOf(v, size) == [name |-> v.name, size |-> size, type |-> v.type, made |-> "user"]
\* the video element's videoWidth, videoHeight, duration for that file
VideoOf(v, height) == [width |-> v.width, height |-> height, duration |-> v.duration]
NoEvent == [stage |-> "none", percent |-> -1]
\* a call of compressVideo(file, onProgress) that has not begun
Fresh(f, video) ==
    [pc |-> "idle", file |-> f, video |-> video, verdict |-> "none",
     mine |-> 0, ff |-> 0, lastPercent |-> 0, last |-> NoEvent,
     emitted |-> {}, count |-> 0, ops |-> {}, ret |-> UNDEF, error |-> "",
     overlapped |-> FALSE]
CompressIdle ==
    /\ ffmpeg = 0
    /\ engines = <<>>
    /\ cv = [c \in Calls |->
               Fresh(FileOf([width |-> 640, duration |-> 12, name |-> "ride.mp4",
                             type |-> "video/mp4"], ThreeMiB),
                     VideoOf([width |-> 640, duration |-> 12, name |-> "ride.mp4",
                              type |-> "video/mp4"], MAX_HEIGHT))]

(* ----------------------- analysis: the values -------------------------- *)
\* a JSON value by its type, with the types of its elements when an array
Val(type, elems) == [type |-> type, elems |-> elems]
Undefined == Val("undefined", <<>>)
\* the values tried for a property that should be a string
MaybeStrings == {Undefined, Val("string", <<>>), Val("number", <<>>)}
\* the values tried for a property that should be an array
MaybeArrays == {Undefined, Val("array", <<>>), Val("string", <<>>)}
\* the values tried for suggestedImprovements
MaybeStringArrays ==
    {Undefined, Val("string", <<>>), Val("array", <<>>),
     Val("array", <<"string">>), Val("array", <<"string", "number">>)}
\* the properties of a value that is not a plain object
NoProps ==
    [jumps |-> Undefined, overallSummary |-> Undefined,
     suggestedImprovements |-> Undefined, movementName |-> Undefined,
     similarProRider |-> Undefined]
\* what JSON.parse(text) can yield: null, a string, an array, or an object
\* with any of the five properties present or absent, well typed or not
Payloads ==
    {[type |-> t, props |-> NoProps] : t \in {"null", "string", "array"}} \cup
    {[type |-> "object", props |-> pr] :
        pr \in [jumps : MaybeArrays, overallSummary : MaybeStrings,
                 suggestedImprovements : MaybeStringArrays,
                 movementName : MaybeStrings, similarProRider : MaybeStrings]}
NoPayload == [type |-> "undefined", props |-> NoProps]
\* the answers of the remote model to generateContent
Upstreams ==
    {[ok |-> FALSE, status |-> st, text |-> "none", payload |-> NoPayload] :
        st \in ErrorStatuses} \cup
    {[ok |-> TRUE, status |-> 200, text |-> t, payload |-> NoPayload] :
        t \in {"none", "unparseable"}} \cup
    {[ok |-> TRUE, status |-> 200, text |-> "json", payload |-> pl] : pl \in Payloads}
NoUpstream == [ok |-> FALSE, status |-> NoStatus, text |-> "none", payload |-> NoPayload]
NoReply == [kind |-> "none", ok |-> FALSE, error |-> "", payload |-> NoPayload]
\* analyzeVideo has not been called
AnalyzeIdle ==
    an = [pc |-> "idle", key |-> TRUE, fileUri |-> "", mimeType |-> "",
          upstream |-> NoUpstream, reply |-> NoReply, result |-> NoPayload,
          error |-> ""]

\* an upload that has not reached the finalize acknowledgment
NotFinalized ==
    [pc |-> "idle", fileName |-> UNDEF, state |-> UNDEF, fileUri |-> UNDEF,
     mimeType |-> UNDEF, attempts |-> 0]
PairIdle ==
    pair = [ack |-> [uri |-> UNDEF, name |-> UNDEF, mimeType |-> UNDEF, state |-> UNDEF],
            fileType |-> "video/mp4", single |-> NotFinalized,
            chunked |-> NotFinalized]

\* HomePage after its first render, lines 106-119
PageIdle ==
    /\ page = [mounted |-> TRUE, appState |-> "UPLOAD", videoUrl |-> 0,
               previousUrl |-> 0, analysisResult |-> "null"]
    /\ hf = [c \in Calls |-> [pc |-> "idle", url |-> 0]]
    /\ urls = <<>>

Init ==
    /\ CompressIdle
    /\ AnalyzeIdle
    /\ PairIdle
    /\ PageIdle
    /\ file \in [size : FileSizes, type : FileTypes]
    /\ apiKey \in BOOLEAN
    /\ run = 1
    /\ prevSent = 0
    /\ Entry
    /\ OverlapIdle

\* uploadToGemini has not been called in the single-call model
UploadIdle ==
    /\ file = [size |-> 1, type |-> "video/mp4"]
    /\ apiKey = TRUE
    /\ run = 1
    /\ prevSent = 0
    /\ Entry

(* --------------------- pieces of uploadToGemini ------------------------ *)
\* faulty variant: one chunk more than the full chunks, also when there is no rest
TotalChunks_FloorPlusOne(size) == size \div CHUNK_SIZE + 1
\* Math.ceil(file.size / CHUNK_SIZE)
TotalChunks(size) == (size + CHUNK_SIZE - 1) \div CHUNK_SIZE
\* faulty variant: no chunk is the last one
IsLast_OffByOne(idx, total) == idx = total
\* i === totalChunks - 1
IsLast(idx, total) == idx = total - 1
\* Math.min(offset + CHUNK_SIZE, file.size)
ChunkEnd(off, size) == Min(off + CHUNK_SIZE, size)
\* 10 + Math.round((offset / file.size) * 40)
UploadProgress(off, size) == 10 + RoundRatio(off, size, 40)
\* faulty variant: the polling percent starts at 50
PollProgress_FromFifty(att) == 50 + Min(att, 15)
\* faulty variant: the polling percent grows with every attempt
PollProgress_Unbounded(att) == 55 + att
\* 55 + Math.min(attempts, 15)
PollProgress(att) == 55 + Min(att, 15)
\* faulty variant: one poll more than the budget
PollContinues_OneMore(st, att) == st = "PROCESSING" /\ att <= MaxAttempts
\* faulty variant: one poll less than the budget
PollContinues_OneLess(st, att) == st = "PROCESSING" /\ att < MaxAttempts - 1
\* faulty variant: only ACTIVE ends the polling, FAILED is polled again
PollContinues_UntilActive(st, att) == st # "ACTIVE" /\ att < MaxAttempts
\* while (state === 'PROCESSING' && attempts < 60)
PollContinues(st, att) == st = "PROCESSING" /\ att < MaxAttempts
\* faulty variant: the next chunk starts one byte after the end of the previous one
NextOffset_Gap(off, end) == end + 1
\* offset = chunkEnd
NextOffset(off, end) == end
\* faulty variant: the first chunk starts where the previous run stopped
InitialOffset_Resume == prevSent
\* let offset = 0
InitialOffset == 0
\* faulty variant: only a successful poll counts as an attempt
NextAttempts_OnlyOk(att, ok) == IF ok THEN att + 1 ELSE att
\* attempts++ at the end of the loop body, after a successful poll or not
NextAttempts(att, ok) == att + 1
\* new Error(errorData.error || fallback): errorData is the JSON body of the
\* response, or { error: fallback } when the body is not JSON
ClientError(resp, fallback) ==
    IF resp.json /\ ~Falsy(resp.body.error.text)
    THEN Err("Error", resp.body.error.text, resp.body.error.status)
    ELSE Err("Error", fallback, NoStatus)

(* ------------------------- pieces of the routes ------------------------ *)
\* NextResponse.json({ error }, { status })
ErrorResponse(kind, status, text, upstream) ==
    [kind |-> kind, ok |-> FALSE, status |-> status, json |-> TRUE,
     body |-> [error |-> [text |-> text, status |-> upstream]]]
\* NextResponse.json(body)
OkResponse(kind, body) ==
    [kind |-> kind, ok |-> TRUE, status |-> 200, json |-> TRUE, body |-> body]
\* an error page of the hosting platform: non-2xx, body is not JSON
GatewayResponse(kind) ==
    [kind |-> kind, ok |-> FALSE, status |-> 504, json |-> FALSE, body |-> UNDEF]
\* const command = isLast ? 'upload, finalize' : 'upload'
Command(isLast) == IF isLast THEN "upload, finalize" ELSE "upload"
\* faulty variant: the message names the route's own status, not the remote's
ChunkRouteError_OwnStatus(upstreamStatus) ==
    ErrorResponse("chunkResp", 500, "Failed to upload chunk: ", 500)
\* { error: `Failed to upload chunk: ${uploadResponse.status}` }, status 500
ChunkRouteError(upstreamStatus) ==
    ErrorResponse("chunkResp", 500, "Failed to upload chunk: ", upstreamStatus)
\* the route's catch block: { error: error.message }, status 500
CaughtResponse(kind) == ErrorResponse(kind, 500, "fetch failed", NoStatus)

RespKind(reqKind) ==
    CASE reqKind = "startReq" -> "startResp"
      [] reqKind = "chunkReq" -> "chunkResp"
      [] reqKind = "statusReq" -> "statusResp"

(* ------------------------------ actions -------------------------------- *)
\* uploadToGemini, lines 87-98: first progress event and the start request
StartUpload ==
    /\ pc = "start"
    /\ percent' = 5
    /\ net' = [kind |-> "startReq", fileName |-> "video.mp4",
               fileSize |-> file.size, mimeType |-> file.type]
    /\ pc' = "awaitStart"
    /\ UNCHANGED notUpload
    /\ UNCHANGED <<file, apiKey, locals, result, error, hist>>

\* POST /api/upload/start
StartRoute ==
    /\ net.kind = "startReq"
    /\ IF ~apiKey
       THEN net' = ErrorResponse("startResp", 500, "GEMINI_API_KEY not configured", NoStatus)
       ELSE IF Falsy(net.fileName) \/ net.fileSize = 0 \/ Falsy(net.mimeType)
       THEN net' = ErrorResponse("startResp", 400,
                       "fileName, fileSize, and mimeType are required", NoStatus)
       ELSE \/ \E st \in ErrorStatuses :
                  net' = ErrorResponse("startResp", 500, "Failed to start upload: ", st)
            \/ net' = ErrorResponse("startResp", 500,
                                    "No upload URL returned from Gemini", NoStatus)
            \/ net' = CaughtResponse("startResp")
            \/ net' = OkResponse("startResp", [uploadUrl |-> "https://upload/session"])
    /\ UNCHANGED notUpload
    /\ UNCHANGED <<file, apiKey, pc, locals, percent, result, error, hist>>

\* faulty variant: the start response is destructured whatever its status
RecvStart_IgnoreStatus ==
    /\ pc = "awaitStart"
    /\ net.kind = "startResp"
    /\ net' = NoMsg
    /\ uploadUrl' = IF net.ok THEN net.body.uploadUrl ELSE UNDEF
    /\ percent' = 10
    /\ totalChunks' = TotalChunks(file.size)
    /\ offset' = InitialOffset
    /\ i' = 0
    /\ fileName' = ""
    /\ fileUri' = ""
    /\ mimeType' = file.type
    /\ pc' = IF 0 < TotalChunks(file.size) THEN "chunk" ELSE "processing"
    /\ UNCHANGED <<chunkEnd, state, attempts, error>>
    /\ UNCHANGED notUpload
    /\ UNCHANGED <<file, apiKey, result, hist>>

\* uploadToGemini, lines 100-114: the start response, then the loop set-up
RecvStart ==
    /\ pc = "awaitStart"
    /\ net.kind = "startResp"
    /\ net' = NoMsg
    /\ IF ~net.ok
       THEN /\ error' = ClientError(net, "Failed to start upload")
            /\ pc' = "failed"
            /\ UNCHANGED <<locals, percent>>
       ELSE /\ uploadUrl' = net.body.uploadUrl
            /\ percent' = 10
            /\ totalChunks' = TotalChunks(file.size)
            /\ offset' = InitialOffset
            /\ i' = 0
            /\ fileName' = ""
            /\ fileUri' = ""
            /\ mimeType' = file.type
            /\ pc' = IF 0 < TotalChunks(file.size) THEN "chunk" ELSE "processing"
            /\ UNCHANGED <<chunkEnd, state, attempts, error>>
    /\ UNCHANGED notUpload
    /\ UNCHANGED <<file, apiKey, result, hist>>

\* faulty variant: the chunk request is not awaited, the loop goes on to the
\* next chunk while it is in flight
SendChunk_Pipelined ==
    /\ pc = "chunk"
    /\ LET end == ChunkEnd(offset, file.size)
           req == [kind |-> "chunkReq", uploadUrl |-> uploadUrl,
                   chunk |-> end - offset,
                   offset |-> ToDigits(offset),
                   totalSize |-> ToDigits(file.size),
                   isLast |-> BoolToString(IsLast(i, totalChunks))]
       IN /\ chunkEnd' = end
          /\ net' = req
          /\ chunkReqs' = Append(chunkReqs,
                 [offset |-> offset, length |-> end - offset,
                  isLast |-> IsLast(i, totalChunks)])
          /\ offset' = NextOffset(offset, end)
    /\ i' = i + 1
    /\ pc' = IF i + 1 < totalChunks THEN "chunk" ELSE "processing"
    /\ UNCHANGED notUpload
    /\ UNCHANGED <<file, apiKey, uploadUrl, totalChunks, fileName,
                   fileUri, mimeType, state, attempts, percent, result, error,
                   uploads, polls, allProcessing, activeAt, lastSeen,
                   failedChunk, run, prevSent>>

\* uploadToGemini, lines 117-131: build and send chunk i
SendChunk ==
    /\ pc = "chunk"
    /\ LET end == ChunkEnd(offset, file.size)
           req == [kind |-> "chunkReq", uploadUrl |-> uploadUrl,
                   chunk |-> end - offset,
                   offset |-> ToDigits(offset),
                   totalSize |-> ToDigits(file.size),
                   isLast |-> BoolToString(IsLast(i, totalChunks))]
       IN /\ chunkEnd' = end
          /\ net' = req
          /\ chunkReqs' = Append(chunkReqs,
                 [offset |-> offset, length |-> end - offset,
                  isLast |-> IsLast(i, totalChunks)])
    /\ pc' = "awaitChunk"
    /\ UNCHANGED notUpload
    /\ UNCHANGED <<file, apiKey, uploadUrl, totalChunks, i, offset, fileName,
                   fileUri, mimeType, state, attempts, percent, result, error,
                   uploads, polls, allProcessing, activeAt, lastSeen,
                   failedChunk, run, prevSent>>

\* POST /api/upload/chunk
ChunkRoute ==
    /\ net.kind = "chunkReq"
    /\ LET off == ParseInt(net.offset)
           total == ParseInt(net.totalSize)
           isLast == net.isLast = "true"
           chunkSize == net.chunk
       IN IF Falsy(net.uploadUrl) \/ off = -1 \/ total = -1
          THEN /\ net' = ErrorResponse("chunkResp", 400,
                     "uploadUrl, chunk, offset, and totalSize are required", NoStatus)
               /\ UNCHANGED <<uploads, failedChunk>>
          ELSE /\ uploads' = Append(uploads,
                     [offset |-> off, length |-> chunkSize, command |-> Command(isLast)])
               /\ \/ \E st \in ErrorStatuses :
                        /\ net' = ChunkRouteError(st)
                        /\ failedChunk' = [offset |-> off, status |-> st]
                  \/ /\ net' = CaughtResponse("chunkResp")
                     /\ UNCHANGED failedChunk
                  \/ /\ UNCHANGED failedChunk
                     /\ IF isLast
                        THEN \E info \in FileInfos :
                               net' = OkResponse("chunkResp",
                                   [complete |-> TRUE, fileUri |-> info.uri,
                                    fileName |-> info.name,
                                    mimeType |-> info.mimeType,
                                    state |-> info.state])
                        ELSE net' = OkResponse("chunkResp",
                                   [complete |-> FALSE,
                                    uploadedBytes |-> off + chunkSize])
    /\ UNCHANGED notUpload
    /\ UNCHANGED <<file, apiKey, pc, locals, percent, result, error, chunkReqs,
                   polls, allProcessing, activeAt, lastSeen, run, prevSent>>

\* faulty variant: a chunk whose response is not ok is sent again
RecvChunk_AutoRetry ==
    /\ pc = "awaitChunk"
    /\ net.kind = "chunkResp"
    /\ net' = NoMsg
    /\ IF ~net.ok
       THEN /\ pc' = "chunk"
            /\ UNCHANGED <<locals, percent, error>>
       ELSE /\ IF net.body.complete
               THEN /\ fileName' = net.body.fileName
                    /\ fileUri' = net.body.fileUri
                    /\ mimeType' = OrElse(net.body.mimeType, file.type)
               ELSE UNCHANGED <<fileName, fileUri, mimeType>>
            /\ offset' = NextOffset(offset, chunkEnd)
            /\ percent' = UploadProgress(NextOffset(offset, chunkEnd), file.size)
            /\ i' = i + 1
            /\ pc' = IF i + 1 < totalChunks THEN "chunk" ELSE "processing"
            /\ UNCHANGED <<uploadUrl, totalChunks, chunkEnd, state, attempts, error>>
    /\ UNCHANGED notUpload
    /\ UNCHANGED <<file, apiKey, result, hist>>

\* uploadToGemini, lines 133-149: the chunk response
RecvChunk ==
    /\ pc = "awaitChunk"
    /\ net.kind = "chunkResp"
    /\ net' = NoMsg
    /\ IF ~net.ok
       THEN /\ error' = ClientError(net, "Chunk upload failed")
            /\ pc' = "failed"
            /\ UNCHANGED <<locals, percent>>
       ELSE /\ IF net.body.complete
               THEN /\ fileName' = net.body.fileName
                    /\ fileUri' = net.body.fileUri
                    /\ mimeType' = OrElse(net.body.mimeType, file.type)
               ELSE UNCHANGED <<fileName, fileUri, mimeType>>
            /\ offset' = NextOffset(offset, chunkEnd)
            /\ percent' = UploadProgress(NextOffset(offset, chunkEnd), file.size)
            /\ i' = i + 1
            /\ pc' = IF i + 1 < totalChunks THEN "chunk" ELSE "processing"
            /\ UNCHANGED <<uploadUrl, totalChunks, chunkEnd, state, attempts, error>>
    /\ UNCHANGED notUpload
    /\ UNCHANGED <<file, apiKey, result, hist>>

\* uploadToGemini, lines 151-156: entry of the polling phase
BeginPolling ==
    /\ pc = "processing"
    /\ percent' = 55
    /\ state' = "PROCESSING"
    /\ attempts' = 0
    /\ pc' = "poll"
    /\ UNCHANGED notUpload
    /\ UNCHANGED <<file, apiKey, net, uploadUrl, totalChunks, i, offset,
                   chunkEnd, fileName, fileUri, mimeType, result, error, hist>>

\* faulty variant: the message does not name the state
ProcessingError_NoState(st) ==
    [name |-> "Error", text |-> "File processing failed or timed out. State: ",
     status |-> NoStatus, state |-> "", offset |-> NoOffset]
\* throw new Error(`File processing failed or timed out. State: ${state}`)
ProcessingError(st) ==
    [name |-> "Error", text |-> "File processing failed or timed out. State: ",
     status |-> NoStatus, state |-> st, offset |-> NoOffset]
\* { error: `Failed to check status: ${statusResponse.status}` }, status 500
StatusRouteError(upstreamStatus) ==
    ErrorResponse("statusResp", 500, "Failed to check status: ", upstreamStatus)

\* uploadToGemini, lines 157-163: sleep one second, then the status request
SendStatus ==
    /\ pc = "poll"
    /\ net' = [kind |-> "statusReq", fileName |-> fileName]
    /\ polls' = polls + 1
    /\ pc' = "awaitStatus"
    /\ UNCHANGED notUpload
    /\ UNCHANGED <<file, apiKey, locals, percent, result, error, chunkReqs,
                   uploads, allProcessing, activeAt, lastSeen,
                   failedChunk, run, prevSent>>

\* POST /api/upload/status
StatusRoute ==
    /\ net.kind = "statusReq"
    /\ IF ~apiKey
       THEN net' = ErrorResponse("statusResp", 500, "GEMINI_API_KEY not configured", NoStatus)
       ELSE IF Falsy(net.fileName)
       THEN net' = ErrorResponse("statusResp", 400, "fileName is required", NoStatus)
       ELSE \/ \E st \in ErrorStatuses : net' = StatusRouteError(st)
            \/ net' = CaughtResponse("statusResp")
            \/ \E d \in StatusDatas :
                  net' = OkResponse("statusResp",
                      [state |-> d.state, fileUri |-> d.uri, mimeType |-> d.mimeType])
    /\ UNCHANGED notUpload
    /\ UNCHANGED <<file, apiKey, pc, locals, percent, result, error, hist>>

\* uploadToGemini, lines 165-180: the status response, the loop test and the
\* final test of the state
RecvStatus ==
    /\ pc = "awaitStatus"
    /\ net.kind = "statusResp"
    /\ net' = NoMsg
    /\ IF net.ok
       THEN /\ state' = net.body.state
            /\ fileUri' = OrElse(net.body.fileUri, fileUri)
            /\ mimeType' = OrElse(net.body.mimeType, mimeType)
            /\ percent' = PollProgress(attempts)
       ELSE UNCHANGED <<state, fileUri, mimeType, percent>>
    /\ attempts' = NextAttempts(attempts, net.ok)
    /\ IF PollContinues(state', attempts')
       THEN /\ pc' = "poll"
            /\ UNCHANGED <<result, error>>
       ELSE IF state' # "ACTIVE"
       THEN /\ error' = ProcessingError(state')
            /\ pc' = "failed"
            /\ UNCHANGED result
       ELSE /\ result' = [fileUri |-> fileUri', mimeType |-> mimeType']
            /\ pc' = "done"
            /\ UNCHANGED error
    /\ allProcessing' = (allProcessing /\ (net.ok => net.body.state = "PROCESSING"))
    /\ activeAt' = IF net.ok /\ net.body.state = "ACTIVE" /\ allProcessing /\ activeAt = 0
                   THEN polls ELSE activeAt
    /\ lastSeen' = IF net.ok THEN net.body.state ELSE lastSeen
    /\ UNCHANGED notUpload
    /\ UNCHANGED <<file, apiKey, uploadUrl, totalChunks, i, offset, chunkEnd,
                   fileName, chunkReqs, uploads, polls, failedChunk,
                   run, prevSent>>

Awaiting == {"awaitStart", "awaitChunk", "awaitStatus"}

\* an awaited fetch() of uploadToGemini rejects (lines 90, 128, 159): there is
\* no try/catch, the rejection leaves uploadToGemini
FetchReject ==
    /\ pc \in Awaiting
    /\ net.kind # "none"
    /\ net' = NoMsg
    /\ error' = FetchError
    /\ pc' = "failed"
    /\ UNCHANGED notUpload
    /\ UNCHANGED <<file, apiKey, locals, percent, result, chunkReqs, uploads,
                   polls, allProcessing, activeAt, lastSeen, failedChunk, run,
                   prevSent>>

\* the hosting platform answers a request itself with a non-2xx page that is
\* not JSON (the .catch(() => ({ error })) fallbacks of lines 101, 134)
GatewayError ==
    /\ net.kind \in {"startReq", "chunkReq", "statusReq"}
    /\ net' = GatewayResponse(RespKind(net.kind))
    /\ UNCHANGED notUpload
    /\ UNCHANGED <<file, apiKey, pc, locals, percent, result, error, hist>>

\* the chunk loop of this run was left by a throw (lines 128-136)
ChunkTransferFailed == pc = "failed" /\ uploadUrl # UNDEF /\ i < totalChunks

\* the caller retries after a failed chunk transfer: the only entry point is
\* a new call of uploadToGemini(file, onProgress), lines 83-87 and 110-114
Retry ==
    /\ ChunkTransferFailed
    /\ run < MaxRuns
    /\ run' = run + 1
    /\ prevSent' = offset
    /\ pc' = "start"
    /\ net' = NoMsg
    /\ uploadUrl' = UNDEF
    /\ totalChunks' = 0
    /\ i' = 0
    /\ offset' = 0
    /\ chunkEnd' = 0
    /\ fileName' = UNDEF
    /\ fileUri' = UNDEF
    /\ mimeType' = UNDEF
    /\ state' = UNDEF
    /\ attempts' = 0
    /\ percent' = -1
    /\ result' = UNDEF
    /\ error' = NoError
    /\ chunkReqs' = <<>>
    /\ uploads' = <<>>
    /\ polls' = 0
    /\ allProcessing' = TRUE
    /\ activeAt' = 0
    /\ lastSeen' = "none"
    /\ failedChunk' = NoChunk
    /\ UNCHANGED notUpload
    /\ UNCHANGED <<file, apiKey>>

Next ==
    \/ StartUpload
    \/ StartRoute
    \/ RecvStart
    \/ SendChunk
    \/ ChunkRoute
    \/ RecvChunk
    \/ BeginPolling
    \/ SendStatus
    \/ StatusRoute
    \/ RecvStatus
    \/ FetchReject
    \/ GatewayError

\* one call of uploadToGemini
Spec == Init /\ [][Next]_vars

NextRetry ==
    \/ Next
    \/ Retry

\* a call of uploadToGemini and the caller's retries after failed chunks
SpecRetry == Init /\ [][NextRetry]_vars

TypeOK ==
    /\ pc \in {"start", "awaitStart", "chunk", "awaitChunk", "processing",
               "poll", "awaitStatus", "done", "failed"}
    /\ offset \in 0..file.size
    /\ i \in 0..totalChunks
    /\ run \in 1..MaxRuns

(* ------------------ overlapping calls of uploadToGemini ----------------- *)
\* uploadToGemini keeps all its state in local variables: a call neither
\* records nor looks up a session of another call.  Each action below is one
\* request of one call together with its response.
OverlapSizes == {1, CHUNK_SIZE + 1}
PollStates == {"PROCESSING", "ACTIVE", "FAILED"}

\* export const uploadToGemini = async (file, onProgress) => {: no test of
\* any shared state stands before the first request
MayInvoke(c) == up[c].pc = "idle"

\* lines 83-98: the call, up to the start request
Invoke(c) ==
    /\ MayInvoke(c)
    /\ up' = [up EXCEPT ![c].pc = "awaitStart"]
    /\ UNCHANGED <<sessions, sharedFile, notOverlap>>

\* lines 100-114: the start response; the remote opens a session per request
Started(c) ==
    /\ up[c].pc = "awaitStart"
    /\ \/ /\ up' = [up EXCEPT ![c].pc = "chunk",
                              ![c].uploadUrl = sessions + 1,
                              ![c].totalChunks = TotalChunks(sharedFile.size),
                              ![c].i = 0]
          /\ sessions' = sessions + 1
       \/ /\ up' = [up EXCEPT ![c].pc = "failed"]
          /\ UNCHANGED sessions
    /\ UNCHANGED <<sharedFile, notOverlap>>

\* lines 116-156: chunk i and its response
ChunkSent(c) ==
    /\ up[c].pc = "chunk"
    /\ \/ up' = [up EXCEPT ![c].i = @ + 1,
                           ![c].pc = IF up[c].i + 1 < up[c].totalChunks
                                     THEN "chunk" ELSE "poll",
                           ![c].state = IF up[c].i + 1 < up[c].totalChunks
                                        THEN @ ELSE "PROCESSING"]
       \/ up' = [up EXCEPT ![c].pc = "failed"]
    /\ UNCHANGED <<sessions, sharedFile, notOverlap>>

\* lines 156-180: one status poll, the loop test and the final test
Polled(c) ==
    /\ up[c].pc = "poll"
    /\ \E ok \in BOOLEAN, st \in PollStates :
         LET state1 == IF ok THEN st ELSE up[c].state
             attempts1 == NextAttempts(up[c].attempts, ok)
         IN up' = [up EXCEPT ![c].state = state1,
                             ![c].attempts = attempts1,
                             ![c].pc = IF PollContinues(state1, attempts1) THEN "poll"
                                       ELSE IF state1 = "ACTIVE" THEN "done"
                                       ELSE "failed"]
    /\ UNCHANGED <<sessions, sharedFile, notOverlap>>

InitOverlap ==
    /\ UploadIdle
    /\ PageIdle
    /\ PairIdle
    /\ CompressIdle
    /\ AnalyzeIdle
    /\ up = [c \in Calls |-> NotCalled]
    /\ sessions = 0
    /\ sharedFile \in [size : OverlapSizes, type : {"video/mp4"}]

NextOverlap ==
    \/ \E c \in Calls : Invoke(c)
    \/ \E c \in Calls : Started(c)
    \/ \E c \in Calls : ChunkSent(c)
    \/ \E c \in Calls : Polled(c)

\* two callers of uploadToGemini with the same file, in any interleaving
SpecOverlap == InitOverlap /\ [][NextOverlap]_vars

(* ----------------------- videoCompressor.ts ----------------------------- *)
\* a number of megabytes as the quotient bytes / perMB, kept exact
\* faulty variant: a megabyte of 1,000,000 bytes
FileSizeMB_Decimal(size) == [bytes |-> size, perMB |-> 1000 * 1000]
\* const fileSizeMB = file.size / 1024 / 1024
FileSizeMB(size) == [bytes |-> size, perMB |-> 1024 * 1024]
\* fileSizeMB > n
ExceedsMB(mb, n) == mb.bytes > n * mb.perMB
\* fileSizeMB >= n
AtLeastMB(mb, n) == mb.bytes >= n * mb.perMB

\* faulty variant: the thresholds themselves are compressed
ShouldCompress_NonStrict(metadata, fileSizeMB) ==
    LET isHighRes == metadata.height >= MAX_HEIGHT
        isLargeFile == AtLeastMB(fileSizeMB, MAX_FILE_SIZE_MB)
    IN isHighRes \/ isLargeFile
\* faulty variant: a wide video is compressed too
ShouldCompress_Width(metadata, fileSizeMB) ==
    LET isHighRes == metadata.height > MAX_HEIGHT \/ metadata.width > 2 * MAX_HEIGHT
        isLargeFile == ExceedsMB(fileSizeMB, MAX_FILE_SIZE_MB)
    IN isHighRes \/ isLargeFile
\* shouldCompress(metadata, fileSizeMB), lines 47-51
ShouldCompress(metadata, fileSizeMB) ==
    LET isHighRes == metadata.height > MAX_HEIGHT
        isLargeFile == ExceedsMB(fileSizeMB, MAX_FILE_SIZE_MB)
    IN isHighRes \/ isLargeFile

\* onProgress({ stage, percent, message }) of one call
Emit(call, stage, pct) ==
    [call EXCEPT !.last = [stage |-> stage, percent |-> pct],
                 !.emitted = @ \cup {[stage |-> stage, percent |-> pct]},
                 !.count = @ + 1]
\* new FFmpeg()
NewEngine == [loaded |-> FALSE, files |-> {}, listeners |-> {}]
\* 'input' + getExtension(file.name), lines 120 and 189-192
InputName(name) ==
    IF name = "ride.MOV" THEN "input.mov" ELSE "input.mp4"
\* Math.round(progress * 100) for a ratio given in thousandths
RoundPercent(thousandths) == (thousandths + 5) \div 10
\* every call creates at most one engine
EngineIds == 1 .. Cardinality(Calls)
\* the completion ratios the engine reports, in thousandths: the listener
\* receives a number, which nothing in compressVideo confines to 0 .. 1
Ratios == {-100, 500, 1500}

\* faulty variant: the skipped file is reported as done
SkipReturn_Done(call) ==
    [Emit(call, "done", 100) EXCEPT !.ret = call.file, !.pc = "skipped"]
\* lines 106-114: the 'skipped' event and return file
SkipReturn(call) ==
    [Emit(call, "skipped", 100) EXCEPT !.ret = call.file, !.pc = "skipped"]

\* the call has begun and has neither returned nor thrown
Running(c) == cv[c].pc \notin {"idle", "skipped", "done", "failed"}

\* faulty variant: every call creates and loads an engine of its own
EngineReady_Never == FALSE
\* loadFFmpeg, line 54: if (ffmpeg && ffmpeg.loaded)
EngineReady == ffmpeg # 0 /\ engines[ffmpeg].loaded

\* lines 91-103: the call, the 'Checking video...' event, the probe begins
CompressVideo(c) ==
    /\ cv[c].pc = "idle"
    /\ cv' = [d \in Calls |->
               IF d = c
               THEN [Emit(cv[c], "loading", 0)
                       EXCEPT !.pc = "probe",
                              !.overlapped = \E o \in Calls \ {c} : Running(o)]
               ELSE IF Running(d) THEN [cv[d] EXCEPT !.overlapped = TRUE]
               ELSE cv[d]]
    /\ UNCHANGED <<ffmpeg, engines, notCompress>>

\* lines 103-118 and 53-75: the probe resolves, the decision, and on Compress
\* loadFFmpeg up to its await
MetadataLoaded(c) ==
    /\ cv[c].pc = "probe"
    /\ LET metadata == cv[c].video
           fileSizeMB == FileSizeMB(cv[c].file.size)
       IN IF ~ShouldCompress(metadata, fileSizeMB)
          THEN /\ cv' = [cv EXCEPT ![c] = SkipReturn([cv[c] EXCEPT !.verdict = "Skip"])]
               /\ UNCHANGED <<ffmpeg, engines>>
          ELSE IF EngineReady
          THEN /\ cv' = [cv EXCEPT ![c].verdict = "Compress",
                                   ![c].ff = ffmpeg,
                                   ![c].pc = "prepare"]
               /\ UNCHANGED <<ffmpeg, engines>>
          ELSE /\ engines' = Append(engines, NewEngine)
               /\ ffmpeg' = Len(engines) + 1
               /\ cv' = [cv EXCEPT ![c] =
                          [Emit([cv[c] EXCEPT !.verdict = "Compress"], "loading", 0)
                             EXCEPT !.mine = Len(engines) + 1,
                                    !.ops = @ \cup {"new", "load"},
                                    !.pc = "loading"]]
    /\ UNCHANGED notCompress

\* getVideoMetadata, lines 38-41: video.onerror
MetadataFailed(c) ==
    /\ cv[c].pc = "probe"
    /\ cv' = [cv EXCEPT ![c].pc = "failed",
                        ![c].error = "Failed to load video metadata"]
    /\ UNCHANGED <<ffmpeg, engines, notCompress>>

\* loadFFmpeg, lines 72-88: load() resolves, 'loading' 100, return ffmpeg
LoadDone(c) ==
    /\ cv[c].pc = "loading"
    /\ engines' = [engines EXCEPT ![cv[c].mine].loaded = TRUE]
    /\ cv' = [cv EXCEPT ![c] = [Emit(cv[c], "loading", 100)
                                  EXCEPT !.ff = ffmpeg, !.pc = "prepare"]]
    /\ UNCHANGED <<ffmpeg, notCompress>>

\* faulty variant: the rejected load is swallowed and the call goes on
LoadFailed_Swallowed(c) ==
    /\ cv[c].pc = "loading"
    /\ cv' = [cv EXCEPT ![c] = [Emit(cv[c], "loading", 100)
                                  EXCEPT !.ff = ffmpeg, !.pc = "prepare"]]
    /\ UNCHANGED <<ffmpeg, engines, notCompress>>

\* loadFFmpeg, lines 77-80: load() rejects
LoadFailed(c) ==
    /\ cv[c].pc = "loading"
    /\ cv' = [cv EXCEPT ![c].pc = "failed",
                        ![c].error = "Failed to load video processor. "]
    /\ UNCHANGED <<ffmpeg, engines, notCompress>>

\* lines 120-129: the 'compressing' 0 event and ff.writeFile
Prepare(c) ==
    /\ cv[c].pc = "prepare"
    /\ cv' = [cv EXCEPT ![c] = [Emit(cv[c], "compressing", 0) EXCEPT !.pc = "writing"]]
    /\ UNCHANGED <<ffmpeg, engines, notCompress>>

\* lines 129-144: writeFile resolves, the listener is added, ff.exec begins
WriteDone(c) ==
    /\ cv[c].pc = "writing"
    /\ engines[cv[c].ff].loaded
    /\ engines' = [engines EXCEPT
                     ![cv[c].ff].files = @ \cup {InputName(cv[c].file.name)},
                     ![cv[c].ff].listeners = @ \cup {c}]
    /\ cv' = [cv EXCEPT ![c].lastPercent = 0,
                        ![c].ops = @ \cup {"writeFile", "exec"},
                        ![c].pc = "exec"]
    /\ UNCHANGED <<ffmpeg, notCompress>>

\* line 129: writeFile on an engine whose load has not completed rejects
WriteFailed(c) ==
    /\ cv[c].pc = "writing"
    /\ ~engines[cv[c].ff].loaded
    /\ cv' = [cv EXCEPT ![c].pc = "failed",
                        ![c].error = "ffmpeg is not loaded"]
    /\ UNCHANGED <<ffmpeg, engines, notCompress>>

\* faulty variant: a percent equal to the last one is reported again
ListenerEmits_NotLess(pct, lastPercent) == pct >= lastPercent
\* line 134: if (percent > lastPercent)
ListenerEmits(pct, lastPercent) == pct > lastPercent

\* lines 131-142: the engine reports a ratio to every 'progress' listener
EngineProgress(e, ratio) ==
    /\ e <= Len(engines)
    /\ \E c \in Calls : cv[c].pc = "exec" /\ cv[c].ff = e
    /\ LET pct == RoundPercent(ratio)
       IN cv' = [c \in Calls |->
                   IF c \in engines[e].listeners /\ ListenerEmits(pct, cv[c].lastPercent)
                   THEN [Emit(cv[c], "compressing", pct)
                           EXCEPT !.lastPercent = pct]
                   ELSE cv[c]]
    /\ UNCHANGED <<ffmpeg, engines, notCompress>>

\* lines 144-164: exec resolves, ff.readFile begins
ExecDone(c) ==
    /\ cv[c].pc = "exec"
    /\ engines' = [engines EXCEPT ![cv[c].ff].files = @ \cup {"output.mp4"}]
    /\ cv' = [cv EXCEPT ![c].pc = "reading"]
    /\ UNCHANGED <<ffmpeg, notCompress>>

\* line 144: exec rejects
ExecFailed(c) ==
    /\ cv[c].pc = "exec"
    /\ cv' = [cv EXCEPT ![c].pc = "failed", ![c].error = "exec failed"]
    /\ UNCHANGED <<ffmpeg, engines, notCompress>>

\* lines 164-186: readFile resolves, both files are deleted, 'done' 100, the
\* compressed File is returned
ReadDone(c) ==
    /\ cv[c].pc = "reading"
    /\ engines' = [engines EXCEPT ![cv[c].ff].files =
                     @ \ {InputName(cv[c].file.name), "output.mp4"}]
    /\ cv' = [cv EXCEPT ![c] =
               [Emit(cv[c], "done", 100)
                  EXCEPT !.ops = @ \cup {"readFile", "deleteFile"},
                         !.ret = [name |-> "ride_compressed.mp4", size |-> 1,
                                  type |-> "video/mp4", made |-> "compressVideo"],
                         !.pc = "done"]]
    /\ UNCHANGED <<ffmpeg, notCompress>>

\* line 164: readFile rejects
ReadFailed(c) ==
    /\ cv[c].pc = "reading"
    /\ cv' = [cv EXCEPT ![c].pc = "failed", ![c].error = "readFile failed"]
    /\ UNCHANGED <<ffmpeg, engines, notCompress>>

InitCompress ==
    /\ UploadIdle
    /\ PageIdle
    /\ PairIdle
    /\ OverlapIdle
    /\ AnalyzeIdle
    /\ ffmpeg = 0
    /\ engines = <<>>
    /\ cv \in [Calls -> {Fresh(FileOf(v, size), VideoOf(v, height)) :
                           v \in Variants, size \in Sizes, height \in Heights}]

NextCompress ==
    \/ \E c \in Calls : CompressVideo(c)
    \/ \E c \in Calls : MetadataLoaded(c)
    \/ \E c \in Calls : MetadataFailed(c)
    \/ \E c \in Calls : LoadDone(c)
    \/ \E c \in Calls : LoadFailed(c)
    \/ \E c \in Calls : Prepare(c)
    \/ \E c \in Calls : WriteDone(c)
    \/ \E c \in Calls : WriteFailed(c)
    \/ \E e \in EngineIds, ratio \in Ratios : EngineProgress(e, ratio)
    \/ \E c \in Calls : ExecDone(c)
    \/ \E c \in Calls : ExecFailed(c)
    \/ \E c \in Calls : ReadDone(c)
    \/ \E c \in Calls : ReadFailed(c)

\* two calls of compressVideo on the page's engine, in any interleaving
SpecCompress == InitCompress /\ [][NextCompress]_vars

(* ------------------ analyzeVideo and the analyze route ------------------ *)
\* typeof v === 'string'
IsString(v) == v.type = "string"
\* Array.isArray(v)
IsArray(v) == v.type = "array"
\* faulty variant: movementName is not examined
IsValidAnalysisResult_NoMovementName(data) ==
    IF data.type \notin {"object", "array", "null"} \/ data.type = "null"
    THEN FALSE
    ELSE /\ IsArray(data.props.jumps)
         /\ IsString(data.props.overallSummary)
         /\ IsArray(data.props.suggestedImprovements)
         /\ IsString(data.props.similarProRider)
\* isValidAnalysisResult, analysisService.ts lines 210-220; typeof data is
\* 'object' for objects, arrays and null
IsValidAnalysisResult(data) ==
    IF data.type \notin {"object", "array", "null"} \/ data.type = "null"
    THEN FALSE
    ELSE /\ IsArray(data.props.jumps)
         /\ IsString(data.props.overallSummary)
         /\ IsArray(data.props.suggestedImprovements)
         /\ IsString(data.props.movementName)
         /\ IsString(data.props.similarProRider)

\* NextResponse.json({ error }, { status }) of the analyze route
AnalyzeError(text) ==
    [kind |-> "reply", ok |-> FALSE, error |-> text, payload |-> NoPayload]

\* analyzeVideo, lines 183-195: the call and its request
AnalyzeVideo ==
    /\ an.pc = "idle"
    /\ \E key \in BOOLEAN, uri \in {"", "files/abc"}, mime \in {"", "video/mp4"} :
         an' = [an EXCEPT !.pc = "sent", !.key = key, !.fileUri = uri,
                          !.mimeType = mime]
    /\ UNCHANGED notAnalyze

\* POST /api/analyze, lines 47-124
AnalyzeRoute ==
    /\ an.pc = "sent"
    /\ IF ~an.key
       THEN an' = [an EXCEPT !.pc = "replied",
                             !.reply = AnalyzeError("GEMINI_API_KEY not configured")]
       ELSE IF Falsy(an.fileUri) \/ Falsy(an.mimeType)
       THEN an' = [an EXCEPT !.pc = "replied",
                             !.reply = AnalyzeError("fileUri and mimeType are required")]
       ELSE \/ \E u \in Upstreams :
                 an' = [an EXCEPT
                          !.pc = "replied",
                          !.upstream = u,
                          !.reply =
                             IF ~u.ok THEN AnalyzeError("Gemini API error: ")
                             ELSE IF u.text = "none"
                             THEN AnalyzeError("No response from Gemini")
                             ELSE IF u.text = "unparseable"
                             THEN AnalyzeError("Unexpected token")
                             ELSE [kind |-> "reply", ok |-> TRUE, error |-> "",
                                   payload |-> u.payload]]
            \/ an' = [an EXCEPT !.pc = "replied",
                                !.reply = AnalyzeError("fetch failed")]
    /\ UNCHANGED notAnalyze

\* analyzeVideo, lines 197-208: the response
RecvAnalysis ==
    /\ an.pc = "replied"
    /\ IF ~an.reply.ok
       THEN an' = [an EXCEPT !.pc = "failed",
                             !.error = OrElse(an.reply.error, "Failed to analyze video")]
       ELSE IF ~IsValidAnalysisResult(an.reply.payload)
       THEN an' = [an EXCEPT !.pc = "failed",
                             !.error = "Invalid response structure from analysis"]
       ELSE an' = [an EXCEPT !.pc = "returned", !.result = an.reply.payload]
    /\ UNCHANGED notAnalyze

\* analyzeVideo, line 187: await fetch rejects
AnalyzeFetchReject ==
    /\ an.pc \in {"sent", "replied"}
    /\ an' = [an EXCEPT !.pc = "failed", !.error = "Failed to fetch"]
    /\ UNCHANGED notAnalyze

InitAnalyze ==
    /\ UploadIdle
    /\ PageIdle
    /\ PairIdle
    /\ OverlapIdle
    /\ CompressIdle
    /\ AnalyzeIdle

NextAnalyze ==
    \/ AnalyzeVideo
    \/ AnalyzeRoute
    \/ RecvAnalysis
    \/ AnalyzeFetchReject

\* one call of analyzeVideo
SpecAnalyze == InitAnalyze /\ [][NextAnalyze]_vars

(* --------- the single-shot upload route beside a one-chunk run ----------- *)
\* Both uploads are given the same finalize acknowledgment and, poll by
\* poll, the same answer of the remote service.
\* the answers of the remote service to a status request
PollAnswers ==
    {[ok |-> TRUE, data |-> d] : d \in StatusDatas} \cup
    {[ok |-> FALSE, data |-> [state |-> UNDEF, uri |-> UNDEF, mimeType |-> UNDEF]]}

\* upload/route.ts line 97: while (fileState === 'PROCESSING' && attempts < 60)
SingleContinues(fileState, att) == fileState = "PROCESSING" /\ att < 60
\* the end of an upload whose loop has stopped: lines 114-124 of the route,
\* lines 176-180 of uploadToGemini
Outcome(st) == IF st = "ACTIVE" THEN "done" ELSE "failed"

\* upload/route.ts lines 87-97: the acknowledgment sets the state
SingleFinalized(ack, fileType) ==
    [pc |-> IF SingleContinues(ack.state, 0) THEN "polling" ELSE Outcome(ack.state),
     fileName |-> ack.name, state |-> ack.state, fileUri |-> ack.uri,
     mimeType |-> OrElse(ack.mimeType, fileType), attempts |-> 0]
\* faulty variant: the run takes its first state from the acknowledgment
ChunkedFinalized_FromAck(ack, fileType) ==
    [pc |-> IF PollContinues(ack.state, 0) THEN "polling" ELSE Outcome(ack.state),
     fileName |-> ack.name, state |-> ack.state, fileUri |-> ack.uri,
     mimeType |-> OrElse(ack.mimeType, fileType), attempts |-> 0]
\* uploadToGemini lines 138-156 with the chunk route's lines 47-57: the
\* acknowledgment of the only chunk, then state = 'PROCESSING'
ChunkedFinalized(ack, fileType) ==
    [pc |-> IF PollContinues("PROCESSING", 0) THEN "polling" ELSE Outcome("PROCESSING"),
     fileName |-> ack.name, state |-> "PROCESSING", fileUri |-> ack.uri,
     mimeType |-> OrElse(ack.mimeType, fileType), attempts |-> 0]

\* upload/route.ts lines 98-112: one poll of the single-shot route
SinglePolled(m, ans) ==
    LET state1 == IF ans.ok THEN ans.data.state ELSE m.state
        attempts1 == m.attempts + 1
    IN [m EXCEPT !.state = state1,
                 !.fileUri = IF ans.ok THEN OrElse(ans.data.uri, @) ELSE @,
                 !.mimeType = IF ans.ok THEN OrElse(ans.data.mimeType, @) ELSE @,
                 !.attempts = attempts1,
                 !.pc = IF SingleContinues(state1, attempts1) THEN "polling"
                        ELSE Outcome(state1)]
\* uploadToGemini lines 157-174 with the status route: one poll of the run;
\* the status route answers 400 itself when the file name is missing
ChunkedPolled(m, ans) ==
    LET ok == ans.ok /\ ~Falsy(m.fileName)
        state1 == IF ok THEN ans.data.state ELSE m.state
        attempts1 == NextAttempts(m.attempts, ok)
    IN [m EXCEPT !.state = state1,
                 !.fileUri = IF ok THEN OrElse(ans.data.uri, @) ELSE @,
                 !.mimeType = IF ok THEN OrElse(ans.data.mimeType, @) ELSE @,
                 !.attempts = attempts1,
                 !.pc = IF PollContinues(state1, attempts1) THEN "polling"
                        ELSE Outcome(state1)]

\* the remote acknowledges the finalize command of both uploads alike
Finalize ==
    /\ pair.single.pc = "idle"
    /\ \E ack \in FileInfos, ft \in FileTypes :
         pair' = [ack |-> ack, fileType |-> ft,
                  single |-> SingleFinalized(ack, ft),
                  chunked |-> ChunkedFinalized(ack, ft)]
    /\ UNCHANGED notPair

\* the remote gives its next answer to whichever upload is still polling
PollAnswered ==
    /\ pair.single.pc = "polling" \/ pair.chunked.pc = "polling"
    /\ \E ans \in PollAnswers :
         pair' = [pair EXCEPT
                    !.single = IF @.pc = "polling" THEN SinglePolled(@, ans) ELSE @,
                    !.chunked = IF @.pc = "polling" THEN ChunkedPolled(@, ans) ELSE @]
    /\ UNCHANGED notPair

InitPair ==
    /\ UploadIdle
    /\ PageIdle
    /\ OverlapIdle
    /\ CompressIdle
    /\ AnalyzeIdle
    /\ PairIdle

NextPair ==
    \/ Finalize
    \/ PollAnswered

\* the single-shot route and a one-chunk run against the same remote answers
SpecPair == InitPair /\ [][NextPair]_vars

(* ------------------- HomePage and its object URLs ----------------------- *)
\* URL.createObjectURL: the registry with one more URL, of the given use
Created(us, kind) == Append(us, [kind |-> kind, revoked |-> 0])
\* URL.revokeObjectURL(url)
Revoked(us, url) == [us EXCEPT ![url].revoked = @ + 1]
\* revoke the URL unless it is the empty string (0)
RevokedIfSet(us, url) == IF url # 0 THEN Revoked(us, url) ELSE us

\* faulty variant: the effect does not revoke the URL it replaces
VideoUrlEffect_NoRevoke(us, previous, videoUrl) == us
\* the effect of lines 121-132 when videoUrl has changed: the clean-up of the
\* previous run of the effect, then its body
VideoUrlEffect(us, previous, videoUrl) ==
    LET cleaned == RevokedIfSet(us, previous)
    IN IF previous # 0 /\ previous # videoUrl
       THEN Revoked(cleaned, previous)
       ELSE cleaned

\* a state setter of the component: without effect once it is unmounted
SetAppState(pg, st) == IF pg.mounted THEN [pg EXCEPT !.appState = st] ELSE pg

\* VideoInput.handleFile, lines 67-86: a file is dropped or chosen while the
\* input is rendered; getVideoDuration creates its object URL
Drop(c) ==
    /\ page.mounted
    /\ page.appState = "UPLOAD"
    /\ hf[c].pc = "idle"
    /\ urls' = Created(urls, "duration")
    /\ hf' = [hf EXCEPT ![c] = [pc |-> "duration", url |-> Len(urls) + 1]]
    /\ UNCHANGED <<page, notPage>>

\* VideoInput lines 56-59 and 82-89, HomePage lines 134-146, getVideoMetadata
\* line 28: the duration is known; too long a video is refused, otherwise
\* onFileReady runs handleFileReady up to the probe of compressVideo
DurationLoaded(c) ==
    /\ hf[c].pc = "duration"
    /\ \/ /\ urls' = Revoked(urls, hf[c].url)
          /\ hf' = [hf EXCEPT ![c] = [pc |-> "refused", url |-> 0]]
          /\ UNCHANGED page
       \/ /\ urls' = Created(Revoked(urls, hf[c].url), "probe")
          /\ hf' = [hf EXCEPT ![c] = [pc |-> "probe", url |-> Len(urls) + 1]]
          /\ page' = SetAppState(page, "COMPRESSING")
    /\ UNCHANGED notPage

\* VideoInput lines 60-63 and 90-92: video.onerror
DurationFailed(c) ==
    /\ hf[c].pc = "duration"
    /\ urls' = Revoked(urls, hf[c].url)
    /\ hf' = [hf EXCEPT ![c] = [pc |-> "refused", url |-> 0]]
    /\ UNCHANGED <<page, notPage>>

\* getVideoMetadata lines 31-38: onloadedmetadata
ProbeLoaded(c) ==
    /\ hf[c].pc = "probe"
    /\ urls' = Revoked(urls, hf[c].url)
    /\ hf' = [hf EXCEPT ![c] = [pc |-> "compressing", url |-> 0]]
    /\ UNCHANGED <<page, notPage>>

\* getVideoMetadata lines 40-43, HomePage lines 172-178: onerror, the catch
ProbeFailed(c) ==
    /\ hf[c].pc = "probe"
    /\ urls' = Revoked(urls, hf[c].url)
    /\ hf' = [hf EXCEPT ![c] = [pc |-> "error", url |-> 0]]
    /\ page' = SetAppState(page, "ERROR")
    /\ UNCHANGED notPage

\* HomePage lines 146-163 and the effect of lines 121-132: compressVideo
\* resolves, the playback URL is created and set, the analysis begins
CompressResolved(c) ==
    /\ hf[c].pc = "compressing"
    /\ LET url == Len(urls) + 1
       IN /\ hf' = [hf EXCEPT ![c] = [pc |-> "analyzing", url |-> url]]
          /\ IF page.mounted
             THEN /\ urls' = VideoUrlEffect(Created(urls, "playback"),
                                            page.previousUrl, url)
                  /\ page' = [page EXCEPT !.videoUrl = url, !.previousUrl = url,
                                          !.appState = "ANALYZING"]
             ELSE /\ urls' = Created(urls, "playback")
                  /\ UNCHANGED page
    /\ UNCHANGED notPage

\* HomePage lines 146 and 172-178: compressVideo rejects
CompressRejected(c) ==
    /\ hf[c].pc = "compressing"
    /\ hf' = [hf EXCEPT ![c].pc = "error"]
    /\ page' = SetAppState(page, "ERROR")
    /\ UNCHANGED <<urls, notPage>>

\* HomePage lines 163-171: fileToBase64 and analyzeVideo resolve
AnalysisResolved(c) ==
    /\ hf[c].pc = "analyzing"
    /\ hf' = [hf EXCEPT ![c].pc = "results"]
    /\ page' = IF page.mounted
               THEN [page EXCEPT !.analysisResult = "result", !.appState = "RESULTS"]
               ELSE page
    /\ UNCHANGED <<urls, notPage>>

\* HomePage lines 163-166 and 172-178: fileToBase64 or analyzeVideo rejects
AnalysisRejected(c) ==
    /\ hf[c].pc = "analyzing"
    /\ hf' = [hf EXCEPT ![c].pc = "error"]
    /\ page' = SetAppState(page, "ERROR")
    /\ UNCHANGED <<urls, notPage>>

\* handleReset, lines 181-187: 'Try Again' of the error view, onReset of the
\* results view
Reset ==
    /\ page.mounted
    /\ \/ page.appState = "ERROR"
       \/ page.appState = "RESULTS" /\ page.analysisResult # "null"
    /\ page' = [page EXCEPT !.analysisResult = "null", !.appState = "UPLOAD"]
    /\ UNCHANGED <<hf, urls, notPage>>

\* the page is left: the clean-up of the effect, lines 127-131
Unmount ==
    /\ page.mounted
    /\ page' = [page EXCEPT !.mounted = FALSE]
    /\ urls' = RevokedIfSet(urls, page.previousUrl)
    /\ UNCHANGED <<hf, notPage>>

InitPage ==
    /\ UploadIdle
    /\ OverlapIdle
    /\ CompressIdle
    /\ AnalyzeIdle
    /\ PairIdle
    /\ PageIdle

NextPage ==
    \/ \E c \in Calls : Drop(c)
    \/ \E c \in Calls : DurationLoaded(c)
    \/ \E c \in Calls : DurationFailed(c)
    \/ \E c \in Calls : ProbeLoaded(c)
    \/ \E c \in Calls : ProbeFailed(c)
    \/ \E c \in Calls : CompressResolved(c)
    \/ \E c \in Calls : CompressRejected(c)
    \/ \E c \in Calls : AnalysisResolved(c)
    \/ \E c \in Calls : AnalysisRejected(c)
    \/ Reset
    \/ Unmount

\* the page, two files given to it, and its object URLs
SpecPage == InitPage /\ [][NextPage]_vars

(* ============================== claims ================================= *)
RECURSIVE SumLengths(_)
SumLengths(seq) ==
    IF seq = <<>> THEN 0 ELSE seq[1].length + SumLengths(Tail(seq))
\* the least n with n * c >= s
CeilDiv(s, c) == CHOOSE n \in 0..(s \div c + 1) : n * c >= s /\ (n = 0 \/ (n - 1) * c < s)
\* every chunk of this run has been sent and acknowledged
LoopDone == uploadUrl # UNDEF /\ i = totalChunks
\* a status response is consumed by uploadToGemini in this step
StatusReceived ==
    /\ pc = "awaitStatus"
    /\ net.kind = "statusResp"
    /\ net' = NoMsg
    /\ error' # FetchError

\* C1: for a file of S > 0 bytes whose chunk requests all succeed, exactly
\* ceil(S / CHUNK_SIZE) chunk requests are sent, each of 1..CHUNK_SIZE bytes,
\* their lengths sum to S, only the last one has isLast = true, and the chunk
\* route sends it with 'upload, finalize' and every earlier one with 'upload'.
C1_Chunking ==
    (file.size > 0 /\ LoopDone) =>
        /\ Len(chunkReqs) = CeilDiv(file.size, CHUNK_SIZE)
        /\ SumLengths(chunkReqs) = file.size
        /\ Len(uploads) = Len(chunkReqs)
        /\ SumLengths(uploads) = file.size
        /\ \A k \in 1..Len(chunkReqs) :
              /\ chunkReqs[k].length \in 1..CHUNK_SIZE
              /\ chunkReqs[k].isLast = (k = Len(chunkReqs))
              /\ uploads[k].length = chunkReqs[k].length
              /\ uploads[k].command =
                    IF k = Len(chunkReqs) THEN "upload, finalize" ELSE "upload"
C1_Witness ==
    /\ LoopDone
    /\ file.size = ScenarioCSize
    /\ Len(uploads) = 4
    /\ uploads[4].command = "upload, finalize"

\* C2: in every run the k-th chunk (counting from 0) has offset k * CHUNK_SIZE
\* and length min(CHUNK_SIZE, S - k * CHUNK_SIZE): the first chunk starts at
\* 0, each later one where the previous one ended, and the route forwards the
\* same offsets to the remote service.
C2_OffsetOrder ==
    /\ \A k \in 1..Len(chunkReqs) :
          /\ chunkReqs[k].offset = (k - 1) * CHUNK_SIZE
          /\ chunkReqs[k].length = Min(CHUNK_SIZE, file.size - (k - 1) * CHUNK_SIZE)
          /\ k > 1 => chunkReqs[k].offset =
                          chunkReqs[k - 1].offset + chunkReqs[k - 1].length
    /\ \A k \in 1..Len(uploads) : uploads[k].offset = chunkReqs[k].offset
C2_Witness ==
    /\ file.size = ScenarioCSize
    /\ Len(uploads) = 4
    /\ uploads[4].offset = 9437184
    /\ uploads[4].length = 10485760 - 9437184

\* C3: a run sends at most 60 status requests; the loop is left at the latest
\* after the 60th, and when the state is still PROCESSING then, the upload
\* fails with the processing error instead of polling again.
C3_PollingBounded ==
    /\ polls <= MaxAttempts
    /\ attempts <= polls
    /\ pc \in {"poll", "awaitStatus"} => attempts < MaxAttempts
    /\ (attempts = MaxAttempts /\ state = "PROCESSING") =>
           /\ pc = "failed"
           /\ error = ProcessingError("PROCESSING")
C3_Witness ==
    /\ pc = "failed"
    /\ polls = MaxAttempts
    /\ ~Falsy(fileName)
    /\ error = ProcessingError("PROCESSING")

\* C4: a finished run has succeeded exactly when some poll k <= 60 reported
\* ACTIVE and every successful poll before it reported PROCESSING; the result
\* is the remote file reference; and the run gives up on a file that is still
\* PROCESSING only after all 60 polls.
C4_ExactBudget ==
    /\ pc \in {"done", "failed"} => ((pc = "done") <=> (activeAt \in 1..MaxAttempts))
    /\ pc = "done" =>
          /\ activeAt = polls
          /\ result = [fileUri |-> fileUri, mimeType |-> mimeType]
    /\ (pc = "failed" /\ error = ProcessingError("PROCESSING")) => polls = MaxAttempts
C4_Witness ==
    /\ pc = "done"
    /\ activeAt = MaxAttempts
    /\ attempts = MaxAttempts

\* C5: a status response that is not 2xx leaves state, fileUri and mimeType
\* unchanged, uses up exactly one attempt and fails the upload only when it
\* was the last attempt of the budget; the status requests of a run, failed
\* or not, never exceed 60.
C5_FailedPollTolerated ==
    /\ [](polls <= MaxAttempts /\ polls - attempts \in {0, 1})
    /\ [][(StatusReceived /\ ~net.ok) =>
            /\ state' = state
            /\ fileUri' = fileUri
            /\ mimeType' = mimeType
            /\ attempts' = attempts + 1
            /\ IF attempts' < MaxAttempts
               THEN pc' = "poll" /\ error' = NoError
               ELSE pc' = "failed" /\ error' = ProcessingError("PROCESSING")]_vars
\* every poll of the run failed (the finalize acknowledgment named no file,
\* so the status route answers 400) and every one of the 60 was counted
C5_Witness ==
    /\ uploads # <<>>
    /\ Falsy(fileName)
    /\ polls = MaxAttempts
    /\ attempts = MaxAttempts
    /\ pc = "failed"

\* C6: a status request that rejects at the network level is tolerated like a
\* non-2xx response: no run that has started polling fails with the rejection
\* of a fetch.
C6_NetworkFailureTolerated ==
    (pc = "failed" /\ polls > 0) => error # FetchError

\* C7: once a successful poll has reported a state other than PROCESSING the
\* run is over and no further status request is sent: after ACTIVE it has
\* returned the file reference, after any other state (FAILED) it has failed
\* with the processing error naming that state, whatever budget remains.
C7_TerminalStates ==
    ~allProcessing =>
        /\ pc \in {"done", "failed"}
        /\ attempts = polls
        /\ net = NoMsg
        /\ state = "ACTIVE" =>
              (pc = "done" /\ result = [fileUri |-> fileUri, mimeType |-> mimeType])
        /\ state # "ACTIVE" =>
              (pc = "failed" /\ error = ProcessingError(state) /\ result = UNDEF)
C7_Witness ==
    /\ pc = "failed"
    /\ state = "FAILED"
    /\ polls = 1
    /\ error = ProcessingError("FAILED")

\* C8: a chunk response that is not ok ends the run with an error at that
\* chunk: the chunk is not sent again, no later chunk is sent and no status
\* request is made.
C8_ChunkFailureStops ==
    /\ [](ChunkTransferFailed =>
            /\ error # NoError
            /\ result = UNDEF
            /\ net = NoMsg
            /\ polls = 0
            /\ Len(chunkReqs) = i + 1
            /\ chunkReqs[i + 1].offset = offset)
    /\ [][(pc = "awaitChunk" /\ net.kind = "chunkResp" /\ ~net.ok /\ net' = NoMsg) =>
            /\ pc' = "failed"
            /\ error' # NoError
            /\ chunkReqs' = chunkReqs
            /\ uploads' = uploads
            /\ polls' = 0]_vars
C8_Witness ==
    /\ ChunkTransferFailed
    /\ failedChunk # NoChunk
    /\ i = 1
    /\ totalChunks = 4
    /\ Len(uploads) = 2

\* C9 as written: a retry after a failed chunk resumes at the offset the
\* failed run had reached and sends no byte below it again.
C9_RetryResumes ==
    run > 1 => \A k \in 1..Len(chunkReqs) : chunkReqs[k].offset >= prevSent
\* C9 as amended: the offset reached is not kept across the throw; a retry is
\* a new call that starts from a fresh state, negotiates a new session and
\* sends the file again from offset 0.
C9_RetryRestarts ==
    run > 1 =>
        /\ pc \in {"start", "awaitStart"} => (uploadUrl = UNDEF /\ offset = 0)
        /\ Len(chunkReqs) >= 1 => (uploadUrl # UNDEF /\ chunkReqs[1].offset = 0)
        /\ Len(uploads) >= 1 => uploads[1].offset = 0
C9_Witness ==
    /\ run = 2
    /\ prevSent = 2 * CHUNK_SIZE
    /\ Len(uploads) >= 1
    /\ uploads[1].offset = 0

\* C10 as written: the error of a failed chunk transfer carries the byte
\* offset of the failing chunk and the HTTP status of the failed transfer.
C10_ErrorCarriesOffsetAndStatus ==
    (ChunkTransferFailed /\ failedChunk # NoChunk) =>
        /\ error.offset = failedChunk.offset
        /\ error.status = failedChunk.status
\* C10 as amended: when the remote service rejects a chunk and the route's
\* response reaches uploadToGemini, the error is a plain Error whose message
\* 'Failed to upload chunk: <status>' carries the HTTP status of the remote
\* answer and no byte offset.
C10_ErrorCarriesStatus ==
    (ChunkTransferFailed /\ failedChunk # NoChunk /\ error.name = "Error") =>
        /\ error.text = "Failed to upload chunk: "
        /\ error.status = failedChunk.status
        /\ error.offset = NoOffset
        /\ failedChunk.offset = offset
C10_Witness ==
    /\ ChunkTransferFailed
    /\ failedChunk = [offset |-> CHUNK_SIZE, status |-> 503]
    /\ error.name = "Error"
    /\ error.status = 503

\* the message of the error thrown after the polling loop
ProcessingText == "File processing failed or timed out. State: "

\* C11: the error thrown after the polling loop names the state reported by
\* the last successful poll, or PROCESSING when no poll succeeded; when the
\* budget of 60 attempts ran out on a file still PROCESSING that state is
\* PROCESSING.
C11_TimeoutCarriesLastState ==
    (pc = "failed" /\ error.text = ProcessingText) =>
        /\ error.state = (IF lastSeen = "none" THEN "PROCESSING" ELSE lastSeen)
        /\ (attempts = MaxAttempts /\ allProcessing) => error.state = "PROCESSING"
C11_Witness ==
    /\ pc = "failed"
    /\ polls = MaxAttempts
    /\ allProcessing
    /\ lastSeen = "PROCESSING"
    /\ error.text = ProcessingText
    /\ error.state = "PROCESSING"

\* C12: within one run the percent passed to onProgress never decreases from
\* one progress event to the next.
C12_ProgressMonotone == [][percent' >= percent]_vars
C12_Witness ==
    /\ percent = 70
    /\ attempts > 15
    /\ totalChunks = 4

\* C13 as written: the last progress event of a run that reached ACTIVE
\* reports 100, and no event of another run reports 100.
C13_FinalEventIsHundred ==
    /\ pc = "done" => percent = 100
    /\ pc # "done" => percent # 100
\* C13 as amended: the last progress event of a run that reached ACTIVE is
\* the event of the poll that observed ACTIVE, with percent 55 + min(polls - 1,
\* 15), at most 70; no progress event of any run reports 100.
C13_FinalEventOfActive ==
    /\ pc = "done" => percent = 55 + Min(polls - 1, 15)
    /\ percent <= 70
C13_Witness ==
    /\ pc = "done"
    /\ polls = MaxAttempts
    /\ percent = 70

\* the position of the run in Idle, Started, Uploading, Finalizing,
\* Processing, Active or Failed
Rank(p) ==
    CASE p = "start" -> 0
      [] p = "awaitStart" -> 1
      [] p \in {"chunk", "awaitChunk"} -> 2
      [] p = "processing" -> 3
      [] p \in {"poll", "awaitStatus"} -> 4
      [] p \in {"done", "failed"} -> 5

\* C14: a run only moves forward through its stages; a chunk request is sent
\* only after the start request has succeeded, a status poll only after the
\* chunk sent with the finalize command has been acknowledged, and the run
\* succeeds only after a poll has observed ACTIVE.
C14_ForwardOnly ==
    /\ [][Rank(pc') >= Rank(pc)]_vars
    /\ [](chunkReqs # <<>> => uploadUrl # UNDEF)
    /\ [](polls > 0 =>
            /\ LoopDone
            /\ chunkReqs # <<>>
            /\ chunkReqs[Len(chunkReqs)].isLast
            /\ uploads # <<>>
            /\ uploads[Len(uploads)].command = "upload, finalize")
    /\ [](pc = "done" => activeAt >= 1 /\ state = "ACTIVE")
C14_Witness ==
    /\ pc = "done"
    /\ Len(chunkReqs) = 4
    /\ polls >= 2
    /\ activeAt = polls

\* the messages of the start route when the remote rejects the negotiation
\* or returns no upload URL
StartRejections ==
    {"Failed to start upload: ", "No upload URL returned from Gemini"}
\* the start response in flight is such a rejection
StartRejected ==
    /\ pc = "awaitStart"
    /\ net.kind = "startResp"
    /\ ~net.ok
    /\ net.json
    /\ net.body.error.text \in StartRejections

\* C15: when the start response is a rejection of the negotiation or reports
\* that no upload URL was returned, the run fails with that error, and a run
\* without upload URL sends no chunk request and no status poll, neither
\* before nor after it has failed.
C15_StartFailureStops ==
    /\ [][(StartRejected /\ net' = NoMsg /\ error' # FetchError) =>
            /\ pc' = "failed"
            /\ error'.text = net.body.error.text
            /\ uploadUrl' = UNDEF]_vars
    /\ [](uploadUrl = UNDEF =>
            /\ chunkReqs = <<>>
            /\ uploads = <<>>
            /\ polls = 0)
    /\ []((pc = "failed" /\ error.text \in StartRejections) => uploadUrl = UNDEF)
    /\ [][pc = "failed" => (chunkReqs' = chunkReqs /\ polls' = polls)]_vars
C15_Witness ==
    /\ pc = "failed"
    /\ error.text = "No upload URL returned from Gemini"
    /\ chunkReqs = <<>>
    /\ polls = 0

\* the call has a session started and unfinished
InFlight(c) == up[c].pc \in {"chunk", "poll"}

\* C16: of the overlapping calls of uploadToGemini for one file, at most one
\* has an upload session started and unfinished at any time.
C16_OneSessionInFlight == Cardinality({c \in Calls : InFlight(c)}) <= 1

\* the call has taken the decision of line 106
Decided(c) == cv[c].verdict # "none"

\* C17: the verdict is Compress exactly when the height is above 480 or the
\* size is above 3 megabytes of file.size / 1024 / 1024, and Skip otherwise:
\* 480 and exactly 3 megabytes are skipped, either excess alone compresses.
C17_VerdictIffAboveThreshold ==
    \A c \in Calls :
        Decided(c) =>
            /\ cv[c].verdict \in {"Skip", "Compress"}
            /\ cv[c].verdict = "Compress" <=>
                 (cv[c].video.height > 480 \/ cv[c].file.size > ThreeMiB)
C17_Witness ==
    /\ cv[1].video.height = 480 /\ cv[1].file.size = ThreeMiB
    /\ cv[1].verdict = "Skip"
    /\ cv[2].video.height = 480 /\ cv[2].file.size = ThreeMiB + 1
    /\ cv[2].verdict = "Compress"

\* C18 as written: a file is oversized exactly when it is longer than
\* 3,000,000 bytes.
C18_DecimalMegabytes ==
    \A c \in Calls :
        (Decided(c) /\ cv[c].video.height <= MAX_HEIGHT) =>
            (cv[c].verdict = "Compress" <=> cv[c].file.size > 3 * 1000 * 1000)
\* C18 as amended: the size test measures megabytes as bytes / 1024 / 1024, so
\* a file is oversized exactly when it is longer than 3,145,728 bytes; the
\* lengths 3,000,001 .. 3,145,728 are not oversized.
C18_BinaryMegabytes ==
    \A c \in Calls :
        (Decided(c) /\ cv[c].video.height <= MAX_HEIGHT) =>
            /\ cv[c].verdict = "Compress" <=> cv[c].file.size > 3 * 1024 * 1024
            /\ cv[c].file.size \in (3 * 1000 * 1000 + 1) .. (3 * 1024 * 1024) =>
                 cv[c].verdict = "Skip"
C18_Witness ==
    \E c \in Calls :
        /\ cv[c].file.size = 3 * 1000 * 1000 + 1
        /\ cv[c].video.height = MAX_HEIGHT
        /\ cv[c].pc = "skipped"

\* C19: two calls whose videos have the same height and whose files have the
\* same byte length take the same branch, whatever their width, duration,
\* file name, MIME type and the state of the engine at the decision.
C19_VerdictDependsOnHeightAndSize ==
    \A c, d \in Calls :
        (/\ Decided(c)
         /\ Decided(d)
         /\ cv[c].video.height = cv[d].video.height
         /\ cv[c].file.size = cv[d].file.size) =>
            cv[c].verdict = cv[d].verdict
C19_Witness ==
    /\ cv[1].video.height = cv[2].video.height
    /\ cv[1].file.size = cv[2].file.size
    /\ cv[1].video.width # cv[2].video.width
    /\ cv[1].video.duration # cv[2].video.duration
    /\ cv[1].file.name # cv[2].file.name
    /\ cv[1].file.type # cv[2].file.type
    /\ cv[1].verdict = "Compress"
    /\ cv[2].verdict = "Compress"
    /\ cv[1].mine # 0
    /\ cv[2].mine = 0 /\ cv[2].ff # 0

\* C20: a call whose verdict is Skip has returned its input file itself, its
\* last progress event is 'skipped' with percent 100, and it has created no
\* engine, loaded none, written no file and run no exec.
C20_SkipBypassesEngine ==
    \A c \in Calls :
        cv[c].verdict = "Skip" =>
            /\ cv[c].pc = "skipped"
            /\ cv[c].ret = cv[c].file
            /\ cv[c].last = [stage |-> "skipped", percent |-> 100]
            /\ cv[c].ops = {}
            /\ cv[c].mine = 0
            /\ cv[c].ff = 0
            /\ \A e \in 1 .. Len(engines) : c \notin engines[e].listeners
C20_Witness ==
    /\ cv[1].pc = "skipped"
    /\ cv[1].ret = cv[1].file
    /\ cv[2].pc = "done"
    /\ ffmpeg # 0

\* no call of compressVideo began while another one was running
Sequential == \A c \in Calls : ~cv[c].overlapped
\* the engines whose load has completed
LoadedEngines == {e \in 1 .. Len(engines) : engines[e].loaded}

\* C21: in calls that do not overlap, at most one engine is ever loaded; a
\* call made after the engine has loaded gets that same instance from
\* loadFFmpeg, creates and loads no engine and emits no 'loading' 100 event.
C21_LoadOnceSequentially ==
    Sequential =>
        /\ Cardinality(LoadedEngines) <= 1
        /\ \A c \in Calls :
             /\ cv[c].mine # 0 => \A e \in LoadedEngines : e >= cv[c].mine
             /\ (cv[c].ff # 0 /\ cv[c].mine = 0) =>
                  /\ LoadedEngines = {cv[c].ff}
                  /\ ffmpeg = cv[c].ff
                  /\ cv[c].ops \cap {"new", "load"} = {}
                  /\ [stage |-> "loading", percent |-> 100] \notin cv[c].emitted
C21_Witness ==
    /\ Sequential
    /\ cv[1].pc = "done"
    /\ cv[1].mine = 1
    /\ cv[2].pc = "done"
    /\ cv[2].mine = 0
    /\ cv[2].ff = 1
    /\ Len(engines) = 1

\* C22: of the calls that overlap while the engine is not loaded, only one
\* creates an engine and only one load is in progress at any time.
C22_SingleInitialisation ==
    /\ Cardinality({c \in Calls : cv[c].pc = "loading"}) <= 1
    /\ Cardinality({e \in 1 .. Len(engines) : ~engines[e].loaded}) <= 1

\* the temporary files of a call in the storage of the engine it used
TempFiles(c) ==
    engines[cv[c].ff].files \cap {InputName(cv[c].file.name), "output.mp4"}

\* C23: when a call that has written its input file has returned or thrown,
\* and no other call has written to an engine, neither the input file nor
\* output.mp4 is left in the engine's storage.
C23_TempFilesDeleted ==
    \A c \in Calls :
        (/\ cv[c].pc \in {"done", "failed"}
         /\ "writeFile" \in cv[c].ops
         /\ \A d \in Calls \ {c} : "writeFile" \notin cv[d].ops) =>
            TempFiles(c) = {}

\* C24: every progress event of compressVideo and of uploadToGemini carries
\* a percent of 0 .. 100.
C24_PercentInRange ==
    /\ \A c \in Calls : \A ev \in cv[c].emitted : ev.percent \in 0 .. 100
    /\ percent \in {-1} \cup 0 .. 100

\* the message of the error thrown by loadFFmpeg
LoadErrorText == "Failed to load video processor. "

\* C25: a call whose engine load was rejected has failed with the load
\* error; it has emitted no 'loading' 100, no 'compressing' and no 'done'
\* event, has written no file and run no exec.
C25_LoadFailureStops ==
    \A c \in Calls :
        (cv[c].mine # 0 /\ ~engines[cv[c].mine].loaded /\ cv[c].pc # "loading") =>
            /\ cv[c].pc = "failed"
            /\ cv[c].error = LoadErrorText
            /\ cv[c].emitted = {[stage |-> "loading", percent |-> 0]}
            /\ cv[c].ops = {"new", "load"}
            /\ cv[c].ff = 0
            /\ \A e \in 1 .. Len(engines) : c \notin engines[e].listeners
C25_Witness ==
    /\ cv[1].pc = "failed"
    /\ cv[1].error = LoadErrorText
    /\ cv[1].mine = 1
    /\ cv[2].pc = "done"
    /\ cv[2].mine = 2

\* the payload is well formed in the sense of the specification
WellFormed(data) ==
    /\ data.type = "object"
    /\ data.props.jumps.type = "array"
    /\ data.props.overallSummary.type = "string"
    /\ data.props.movementName.type = "string"
    /\ data.props.similarProRider.type = "string"
    /\ data.props.suggestedImprovements.type = "array"
    /\ \A k \in 1 .. Len(data.props.suggestedImprovements.elems) :
         data.props.suggestedImprovements.elems[k] = "string"

\* C26: the parsed payload of a successful reply is accepted exactly when it
\* is an object with jumps an array, overallSummary, movementName and
\* similarProRider strings and suggestedImprovements an array of strings.
C26_AcceptsIffWellFormed ==
    (an.pc \in {"returned", "failed"} /\ an.reply.ok /\ an.error # "Failed to fetch") =>
        (an.pc = "returned" <=> WellFormed(an.reply.payload))

\* the five required properties are present with their top-level types
Complete(data) ==
    /\ data.type = "object"
    /\ data.props.jumps.type = "array"
    /\ data.props.suggestedImprovements.type = "array"
    /\ \A f \in {"overallSummary", "movementName", "similarProRider"} :
         data.props[f].type = "string"

\* C27: analyzeVideo returns a result only when the remote answered with a
\* success status and parseable text whose payload has every required
\* property, and returns that payload; after a non-success status, no text,
\* unparseable text or a payload lacking a required property it has thrown
\* an error and returned nothing.
C27_NoPartialResult ==
    /\ an.pc = "returned" =>
         /\ an.upstream.ok
         /\ an.upstream.text = "json"
         /\ Complete(an.upstream.payload)
         /\ an.result = an.upstream.payload
         /\ an.error = ""
    /\ an.pc = "failed" => (an.result = NoPayload /\ an.error # "")
    /\ an.pc # "returned" => an.result = NoPayload
C27_Witness ==
    /\ an.pc = "failed"
    /\ an.error = "Invalid response structure from analysis"
    /\ an.upstream.ok
    /\ an.upstream.payload.type = "object"
    /\ an.upstream.payload.props.movementName = Undefined
    /\ an.upstream.payload.props.jumps.type = "array"
    /\ an.upstream.payload.props.overallSummary.type = "string"
    /\ an.upstream.payload.props.similarProRider.type = "string"
    /\ an.upstream.payload.props.suggestedImprovements = Val("array", <<"string">>)

\* both uploads have ended
BothEnded == pair.single.pc \in {"done", "failed"} /\ pair.chunked.pc \in {"done", "failed"}
\* the two uploads have issued the same polls and ended alike
SameRun ==
    /\ pair.single.attempts = pair.chunked.attempts
    /\ pair.single.pc = pair.chunked.pc
    /\ pair.single.pc = "done" =>
         /\ pair.single.fileUri = pair.chunked.fileUri
         /\ pair.single.mimeType = pair.chunked.mimeType

UrlsOf(kind) == {u \in 1 .. Len(urls) : urls[u].kind = kind}
\* the probe and duration URLs whose video element has fired its event
Settled(u) == \A c \in Calls : hf[c].url # u
\* no run of handleFileReady can still create or set a URL
AllEnded == \A c \in Calls : hf[c].pc \in {"idle", "refused", "error", "results"}

\* C29: a probe URL is revoked exactly once when its probe has loaded or
\* failed; a playback URL is not revoked while it is the video URL of the
\* mounted page, is revoked once a newer one has replaced it, and every
\* playback URL is revoked once the page is unmounted and its runs have ended.
C29_ObjectUrlsReleased ==
    /\ \A u \in UrlsOf("probe") :
         urls[u].revoked = IF Settled(u) THEN 1 ELSE 0
    /\ (page.mounted /\ page.videoUrl # 0) => urls[page.videoUrl].revoked = 0
    /\ page.mounted =>
         \A u \in UrlsOf("playback") : u # page.videoUrl => urls[u].revoked >= 1
    /\ (~page.mounted /\ AllEnded) =>
         \A u \in UrlsOf("playback") : urls[u].revoked >= 1

\* a chunk request or a status poll of the run is in flight: sent, and its
\* awaited fetch has neither resolved nor rejected
ChunkInFlight == net.kind \in {"chunkReq", "chunkResp"}
PollInFlight == net.kind \in {"statusReq", "statusResp"}

\* C30: within one run a chunk request is sent only when no request is in
\* flight and every chunk sent before has completed successfully; a status
\* poll is sent only when no request is in flight and all chunks have
\* completed; so at most one sent chunk is ever not yet completed, and it is
\* the one in flight.
C30_OneRequestInFlight ==
    /\ [][Len(chunkReqs') > Len(chunkReqs) =>
            /\ net = NoMsg
            /\ Len(chunkReqs) = i
            /\ polls = 0
            /\ ChunkInFlight']_vars
    /\ [][polls' > polls =>
            /\ net = NoMsg
            /\ i = totalChunks
            /\ Len(chunkReqs) = totalChunks
            /\ PollInFlight']_vars
    /\ [](ChunkInFlight => pc = "awaitChunk" /\ Len(chunkReqs) = i + 1)
    /\ [](PollInFlight => pc = "awaitStatus" /\ Len(chunkReqs) = i)
    /\ [](Len(chunkReqs) \in {i, i + 1})
C30_Witness ==
    /\ PollInFlight
    /\ polls = 2
    /\ Len(chunkReqs) = 4
    /\ i = 4

\* the 'compressing' percents a call has emitted
CompressingPercents(call) ==
    {ev.percent : ev \in {x \in call.emitted : x.stage = "compressing"}}

\* C31: every 'compressing' event of a call carries a percent strictly
\* greater than every 'compressing' percent the call has emitted before (the
\* initial 0 included), whatever ratios the engine reports.
C31_CompressingStrictlyIncreasing ==
    [][\A c \in Calls :
         (cv'[c].count > cv[c].count /\ cv'[c].last.stage = "compressing") =>
            \A before \in CompressingPercents(cv[c]) : cv'[c].last.percent > before]_vars
C31_Witness ==
    \E c \in Calls :
        /\ cv[c].pc = "exec"
        /\ CompressingPercents(cv[c]) = {0, 50, 150}
        /\ cv[c].lastPercent = 150

\* the position of a stage in the pipeline
StageRank(stage) ==
    CASE stage = "loading" -> 1
      [] stage = "compressing" -> 2
      [] stage = "done" -> 3
      [] OTHER -> 0
\* the call has emitted an event of that stage
HasEmitted(call, stage) == \E ev \in call.emitted : ev.stage = stage
\* the step delivers an event to the onProgress callback of call c
Delivers(c) == cv'[c].count > cv[c].count

\* C32: the events a compressing run delivers never go back in the order
\* 'loading', 'compressing', 'done'; 'done' is delivered at most once, with
\* percent 100, after the output was read and the temporary files deleted,
\* and never by a run that failed or was skipped.
C32_StagesInPipelineOrder ==
    /\ [][\A c \in Calls :
            (Delivers(c) /\ cv[c].verdict = "Compress") =>
               /\ \A ev \in cv[c].emitted :
                    StageRank(cv'[c].last.stage) >= StageRank(ev.stage)
               /\ cv'[c].last.stage = "done" => ~HasEmitted(cv[c], "done")]_vars
    /\ [](\A c \in Calls :
            HasEmitted(cv[c], "done") =>
               /\ [stage |-> "done", percent |-> 100] \in cv[c].emitted
               /\ \A ev \in cv[c].emitted : ev.stage = "done" => ev.percent = 100
               /\ {"readFile", "deleteFile"} \subseteq cv[c].ops
               /\ cv[c].pc = "done")
    /\ [](\A c \in Calls : cv[c].pc = "done" => HasEmitted(cv[c], "done"))

\* the call holds the engine loadFFmpeg returned and is in the pipeline of
\* lines 120-167
InPipeline(c) == cv[c].pc \in {"prepare", "writing", "exec", "reading"}

\* C33: the engine a call has received from loadFFmpeg and writes to or runs
\* is an engine whose load has completed, also when two loads overlap.
C33_HandedEngineIsLoaded ==
    \A c \in Calls : InPipeline(c) => engines[cv[c].ff].loaded

\* C34: a step delivers an event to the callback of at most one call, one
\* event at a time, and never to the callback of a call that has already
\* returned or thrown: a progress report of the engine reaches only the call
\* whose transcode is running.
C34_ProgressIsolated ==
    [][/\ \A c \in Calls :
            Delivers(c) =>
               /\ cv[c].pc \notin {"skipped", "done", "failed"}
               /\ cv'[c].count = cv[c].count + 1
       /\ Cardinality({c \in Calls : Delivers(c)}) <= 1]_vars

\* the step hands an ok response of that kind to the run (its fetch resolves)
Received(kind) == net.kind = kind /\ net.ok /\ net' = NoMsg /\ error' # FetchError
\* the step receives the finalize acknowledgment
AckReceived == Received("chunkResp") /\ net.body.complete
\* the step receives the answer of a status poll
PollReceived == Received("statusResp")
\* the step receives the start response and declares the locals
Declared == Received("startResp")
\* the most recent non-empty of two values, the newer first
Latest(newer, older) == IF Falsy(newer) THEN older ELSE newer

\* C35: the URI held by the run, declared empty, changes only when the
\* finalize acknowledgment or a poll answer is received, to the URI received
\* if that is not empty; the MIME type likewise, starting from the file's declared
\* type; a successful run returns the two values held, and the URI returned
\* is not empty.
C35_ReturnsRemoteUri ==
    /\ [][/\ fileUri' # fileUri =>
               \/ Declared /\ fileUri' = ""
               \/ AckReceived /\ fileUri' = net.body.fileUri
               \/ PollReceived /\ fileUri' = Latest(net.body.fileUri, fileUri)
          /\ Declared => mimeType' = file.type
          /\ AckReceived => mimeType' = Latest(net.body.mimeType, file.type)
          /\ PollReceived => mimeType' = Latest(net.body.mimeType, mimeType)
          /\ (mimeType' # mimeType) => (Declared \/ AckReceived \/ PollReceived)]_vars
    /\ [](pc = "done" =>
            /\ result = [fileUri |-> fileUri, mimeType |-> mimeType]
            /\ ~Falsy(result.fileUri))

PollingEntered == pc \in {"processing", "poll", "awaitStatus"} \/ polls > 0

\* C37: for a file of length 0 no start response is ok, so the run sends no
\* chunk and issues no poll and ends failed; and a run enters the polling
\* phase only when its last chunk, the finalize chunk, was sent and
\* acknowledged and the acknowledgment gave a remote file name.
C37_NoPollingWithoutAck ==
    /\ file.size = 0 =>
         /\ net.kind = "startResp" => ~net.ok
         /\ pc \in {"start", "awaitStart", "failed"}
         /\ chunkReqs = <<>>
         /\ polls = 0
    /\ PollingEntered =>
         /\ chunkReqs # <<>>
         /\ chunkReqs[Len(chunkReqs)].isLast
         /\ i = totalChunks
         /\ ~Falsy(fileName)

\* the changes of appState the page is meant to make
AppStateSteps ==
    {<<"UPLOAD", "COMPRESSING">>, <<"COMPRESSING", "ANALYZING">>,
     <<"ANALYZING", "RESULTS">>, <<"COMPRESSING", "ERROR">>,
     <<"ANALYZING", "ERROR">>, <<"ERROR", "UPLOAD">>, <<"RESULTS", "UPLOAD">>}
\* a run of handleFileReady ends in its catch block in this step
RunFails(c) == hf[c].pc # "error" /\ hf'[c].pc = "error"

\* C38: appState changes only along UPLOAD, COMPRESSING, ANALYZING, RESULTS,
\* into ERROR only from COMPRESSING or ANALYZING and back to UPLOAD only from
\* ERROR or RESULTS; ANALYZING is entered when a compression has resolved;
\* RESULTS is shown only with an analysis result; and when a step of a run
\* fails the mounted page is in ERROR, which only a reset leaves.
C38_AppStateSequence ==
    /\ [][page'.appState # page.appState =>
            <<page.appState, page'.appState>> \in AppStateSteps]_vars
    /\ [][(page'.appState = "ANALYZING" /\ page.appState # "ANALYZING") =>
            \E c \in Calls : hf[c].pc = "compressing" /\ hf'[c].pc = "analyzing"]_vars
    /\ [](page.appState = "RESULTS" => page.analysisResult # "null")
    /\ [][\A c \in Calls :
            (RunFails(c) /\ page.mounted) => page'.appState = "ERROR"]_vars
====
